---- MODULE Spec2Model ----
(***************************************************************************)
(* A model of dalmatian/fctools.py: the status reducer                     *)
(* (WorkspaceManager.get_submission_status), the cost and timing           *)
(* aggregator (WorkspaceManager.get_stats, workflow_time), the pricing     *)
(* table (get_vm_cost), the failure diagnostics                            *)
(* (WorkspaceManager.display_status, get_stderr) and the repository        *)
(* updates (update_method, WorkspaceManager.publish_config).               *)
(*                                                                         *)
(* Representation.                                                         *)
(*  - An ISO-8601 date string is a record [hour, minute, offset]: the wall *)
(*    clock reading and the UTC offset in hours written in the string.     *)
(*    Two different strings can denote the same instant.                   *)
(*  - A POSIX timestamp is an integer number of seconds.                   *)
(*  - A duration in hours (x/3600 in the source) is kept as the exact      *)
(*    number of seconds x, i.e. the numerator over 3600; floating point    *)
(*    rounding is not modelled.                                            *)
(*  - An hourly price is kept in units of 1e-4 dollars; an estimated cost  *)
(*    is therefore price * seconds, in units of 1e-4/3600 dollars.         *)
(*  - A float cell is a record [nan, v]: NaN, or the number v.  Arithmetic  *)
(*    on NaN yields NaN and every comparison with NaN is false.            *)
(*  - A pandas table is the sequence of its rows, in row order.            *)
(*  - A string on which the source does substring search or splitting is   *)
(*    the sequence of its pieces.                                          *)
(***************************************************************************)
EXTENDS Integers, Sequences, FiniteSets, TLC

VARIABLES
    submissions,   \* remote: the JSON list answered by list_submissions
    configuration, \* argument of get_submission_status
    status_df,     \* outcome of the last get_submission_status call
    metadata,      \* remote: workflow id -> answer of get_workflow_metadata
    stats_input,   \* argument status_df of get_stats
    stats,         \* outcome of the last get_stats call
    machine_type,  \* argument of get_vm_cost
    preemptible,   \* argument of get_vm_cost
    vm_cost,       \* outcome of the last get_vm_cost call
    objects,       \* remote: bucket object path -> text
    state_df,      \* outcome of the last display_status call
    task_name,     \* argument of the last get_stderr call
    stderrs,       \* outcome of the last get_stderr call
    requests,      \* the remote requests issued by the last call
    repository,    \* remote: snapshot ids of the method or configuration
    publish        \* the running update_method / publish_config call

diagnosticsVars == <<objects, state_df, task_name, stderrs, requests>>
repositoryVars == <<repository, publish>>

vars == <<submissions, configuration, status_df, metadata, stats_input, stats,
          machine_type, preemptible, vm_cost, objects, state_df, task_name,
          stderrs, requests, repository, publish>>

(***************************************************************************)
(* Bounds of the model.                                                    *)
(***************************************************************************)
MaxSubs == 2

(***************************************************************************)
(* Generic helpers.                                                        *)
(***************************************************************************)
SeqsUpTo(S, n) == UNION {[1..k -> S] : k \in 0..n}

\* Python's `needle in hay` on strings, at the granularity of the pieces.
Contains(needle, hay) ==
    \E off \in 0..(Len(hay) - Len(needle)) :
        SubSeq(hay, off + 1, off + Len(needle)) = needle

(***************************************************************************)
(* convert_time / the timestamp expression of get_submission_status.       *)
(***************************************************************************)
convert_time(x) == 3600 * (x.hour - x.offset) + 60 * x.minute

(***************************************************************************)
(* The remote submission service: what it can answer.                      *)
(***************************************************************************)
ConfigNames == {<<"rnaseq", "_v1">>, <<"star">>}
Configurations == {<<"rnaseq">>}

SubmissionDates ==
    { [hour |-> 1, minute |-> 0, offset |-> 0],
      [hour |-> 2, minute |-> 0, offset |-> 1],
      [hour |-> 2, minute |-> 0, offset |-> 0] }

\* submissionEntity and the workflows get_submission answers for it; each
\* workflow is <<status, workflowEntity name>>.
EntityShapes ==
    { [entityType |-> "sample", entityName |-> "s1",
       workflows |-> << <<"Succeeded", "s1">> >>],
      [entityType |-> "sample", entityName |-> "s1",
       workflows |-> << <<"Failed", "s1">> >>],
      [entityType |-> "sample", entityName |-> "s2",
       workflows |-> << <<"Succeeded", "s2">> >>],
      [entityType |-> "participant", entityName |-> "p1",
       workflows |-> << <<"Failed", "p1">> >>],
      [entityType |-> "sample_set", entityName |-> "set1",
       workflows |-> << <<"Succeeded", "s1">> >>],
      [entityType |-> "sample_set", entityName |-> "set1",
       workflows |-> << <<"Succeeded", "s1">>, <<"Failed", "s2">> >>],
      [entityType |-> "sample_set", entityName |-> "set1",
       workflows |-> << <<"Failed", "s1">>, <<"Running", "s2">> >>],
      [entityType |-> "pair", entityName |-> "pr1",
       workflows |-> << <<"Succeeded", "pr1">> >>] }

SubmissionShapes == EntityShapes \X ConfigNames \X SubmissionDates

\* The submission with id k of shape sh, as list_submissions and
\* get_submission describe it.
MkSubmission(k, sh) ==
    [ submissionId |-> k,
      methodConfigurationName |-> sh[2],
      submissionDate |-> sh[3],
      submissionEntity |-> [entityType |-> sh[1].entityType,
                            entityName |-> sh[1].entityName],
      workflows |-> [j \in 1..Len(sh[1].workflows) |->
                        [ workflowId |-> <<k, j>>,
                          status |-> sh[1].workflows[j][1],
                          workflowEntity |->
                              [entityName |-> sh[1].workflows[j][2]] ]] ]

SubmissionLists ==
    { [k \in 1..Len(shs) |-> MkSubmission(k, shs[k])] :
        shs \in SeqsUpTo(SubmissionShapes, MaxSubs) }

HttpCodes == {200, 500}

\* The outcome variables before the first call.
NotCalled == [outcome |-> "none", table |-> <<>>]
StatsNotCalled ==
    [outcome |-> "none", workflow_status_df |-> <<>>, task_dfs |-> <<>>]
VmNotCalled == [outcome |-> "none", price |-> 0]
StderrNotCalled == [outcome |-> "none", texts |-> <<>>]
PublishNotCalled ==
    [pc |-> "idle", op |-> "update_method", public |-> FALSE,
     old_version |-> 0, log |-> <<>>, before |-> {}]

\* The variables of the failure diagnostics and of the repository, idle.
DiagnosticsIdle ==
    /\ objects = <<>>
    /\ state_df = NotCalled
    /\ task_name = ""
    /\ stderrs = StderrNotCalled
    /\ requests = <<>>

RepositoryIdle ==
    /\ repository = {}
    /\ publish = PublishNotCalled

(***************************************************************************)
(* sample_dict of get_submission_status: a Python dict keyed by entity id, *)
(* kept as the sequence of its values in insertion order (the row order of *)
(* the returned table).                                                    *)
(***************************************************************************)
Has(sample_dict, id) ==
    \E n \in 1..Len(sample_dict) : sample_dict[n].sample_id = id

Row(sample_dict, id) ==
    sample_dict[CHOOSE n \in 1..Len(sample_dict) : sample_dict[n].sample_id = id]

\* sample_dict[id] = rec: a new key is appended, an old key keeps its place.
Store(sample_dict, rec) ==
    IF Has(sample_dict, rec.sample_id)
    THEN [n \in 1..Len(sample_dict) |->
            IF sample_dict[n].sample_id = rec.sample_id THEN rec
            ELSE sample_dict[n]]
    ELSE Append(sample_dict, rec)

\* Faulty variant of Newer: the comparison reversed, the oldest record wins.
NewerReversed(sample_dict, id, ts) ==
    ~Has(sample_dict, id) \/ Row(sample_dict, id).timestamp > ts

\* Faulty variant of Newer: no comparison, the last record in list order wins.
NewerAlways(sample_dict, id, ts) == TRUE

\* `id not in sample_dict or sample_dict[id]['timestamp']<ts`
Newer(sample_dict, id, ts) ==
    ~Has(sample_dict, id) \/ Row(sample_dict, id).timestamp < ts

\* The dict literal stored for entity id from workflow w of submission s.
StatusRecord(s, id, w, ts) ==
    [ sample_id |-> id,
      status |-> w.status,
      timestamp |-> ts,
      submission_id |-> s.submissionId,
      configuration |-> s.methodConfigurationName,
      workflow_id |-> w.workflowId ]

Upsert(sample_dict, s, id, w, ts) ==
    IF Newer(sample_dict, id, ts)
    THEN Store(sample_dict, StatusRecord(s, id, w, ts))
    ELSE sample_dict

\* Faulty variant of MemberId: the set's own name for every member workflow.
MemberIdRoot(s, w) == s.submissionEntity.entityName

\* the key used for workflow w of a sample_set submission with several
\* workflows
MemberId(s, w) == w.workflowEntity.entityName

\* `for w in r['workflows']` of the sample_set branch
RECURSIVE SetMembers(_, _, _, _)
SetMembers(sample_dict, s, ws, ts) ==
    IF ws = <<>> THEN sample_dict
    ELSE SetMembers(Upsert(sample_dict, s, MemberId(s, Head(ws)), Head(ws), ts),
                    s, Tail(ws), ts)

\* One iteration of `for s in submissions`, the get_submission call having
\* answered 200 with s.workflows.
ReduceSubmission(sample_dict, s) ==
    LET ts == convert_time(s.submissionDate)
        r == s.workflows
        kind == s.submissionEntity.entityType
        name == s.submissionEntity.entityName
    IN  CASE kind = "sample" -> Upsert(sample_dict, s, name, r[1], ts)
          [] kind = "sample_set" ->
                IF Len(r) = 1 THEN Upsert(sample_dict, s, name, r[1], ts)
                ELSE SetMembers(sample_dict, s, r, ts)
          [] kind = "participant" -> Upsert(sample_dict, s, name, r[1], ts)
          [] OTHER -> sample_dict

RECURSIVE ReduceAll(_, _)
ReduceAll(sample_dict, subs) ==
    IF subs = <<>> THEN sample_dict
    ELSE ReduceAll(ReduceSubmission(sample_dict, Head(subs)), Tail(subs))

\* `[s for s in submissions if configuration in s['methodConfigurationName']]`
FilterByConfiguration(subs, config) ==
    SelectSeq(subs, LAMBDA s : Contains(config, s.methodConfigurationName))

Raised(error) == [outcome |-> error, table |-> <<>>]
Returned(table) == [outcome |-> "returned", table |-> table]

\* get_submission_status(configuration) against the list subs, the
\* list_submissions request answering listCode and the get_submission
\* request for submission id k answering subCode[k].
GetSubmissionStatus(subs, config, listCode, subCode) ==
    IF listCode # 200 THEN Raised("AssertionError")
    ELSE LET kept == FilterByConfiguration(subs, config)
         IN  IF \E n \in 1..Len(kept) : subCode[kept[n].submissionId] # 200
             THEN Raised("AssertionError")
             ELSE LET sample_dict == ReduceAll(<<>>, kept)
                  IN  IF sample_dict = <<>> THEN Raised("KeyError")
                      ELSE Returned(sample_dict)

(***************************************************************************)
(* Status reducer: specification.                                          *)
(***************************************************************************)
InitStatus ==
    /\ submissions \in SubmissionLists
    /\ configuration \in Configurations
    /\ status_df = NotCalled
    /\ metadata = <<>>
    /\ stats_input = <<>>
    /\ stats = StatsNotCalled
    /\ machine_type = ""
    /\ preemptible = TRUE
    /\ vm_cost = VmNotCalled
    /\ DiagnosticsIdle
    /\ RepositoryIdle

CallGetSubmissionStatus ==
    \E listCode \in HttpCodes :
    \E subCode \in [1..Len(submissions) -> HttpCodes] :
        /\ status_df' = GetSubmissionStatus(submissions, configuration,
                                            listCode, subCode)
        /\ UNCHANGED <<submissions, configuration, metadata, stats_input,
                       stats, machine_type, preemptible, vm_cost>>
        /\ UNCHANGED <<diagnosticsVars, repositoryVars>>

NextStatus == CallGetSubmissionStatus

SpecStatus == InitStatus /\ [][NextStatus]_vars

(***************************************************************************)
(* VM costs: get_vm_cost.                                                  *)
(***************************************************************************)
\* The dict display of preemptible_dict, entry by entry as written.
preemptible_dict ==
    << <<"n1-standard-1", 100>>,
       <<"n1-standard-2", 200>>,
       <<"n1-standard-4", 400>>,
       <<"n1-standard-8", 800>>,
       <<"n1-standard-16", 1600>>,
       <<"n1-standard-32", 3200>>,
       <<"n1-standard-32", 6400>>,
       <<"n1-highmem-2", 250>>,
       <<"n1-highmem-4", 500>>,
       <<"n1-highmem-8", 1000>>,
       <<"n1-highmem-16", 2000>>,
       <<"n1-highmem-32", 4000>>,
       <<"n1-highmem-64", 8000>> >>

\* The dict display of standard_dict, entry by entry as written.
standard_dict ==
    << <<"n1-standard-1", 475>>,
       <<"n1-standard-2", 950>>,
       <<"n1-standard-4", 1900>>,
       <<"n1-standard-8", 3800>>,
       <<"n1-standard-16", 7600>>,
       <<"n1-standard-32", 15200>>,
       <<"n1-standard-64", 30400>>,
       <<"n1-highmem-2", 1184>>,
       <<"n1-highmem-4", 2368>>,
       <<"n1-highmem-8", 4736>>,
       <<"n1-highmem-16", 9472>>,
       <<"n1-highmem-32", 18944>>,
       <<"n1-highmem-64", 37888>> >>

\* `key in d` for a dict display d
DictHas(d, key) == \E n \in 1..Len(d) : d[n][1] = key

\* d[key] for a dict display d: of two entries with one key Python keeps the
\* value of the later one.
DictGet(d, key) ==
    LET last == CHOOSE n \in 1..Len(d) :
                    /\ d[n][1] = key
                    /\ \A m \in 1..Len(d) : d[m][1] = key => m <= n
    IN  d[last][2]

VmReturned(price) == [outcome |-> "returned", price |-> price]
VmRaised(error) == [outcome |-> error, price |-> 0]

\* Faulty variant of get_vm_cost: d.get(machine_type, 0).
get_vm_cost_default(m, p) ==
    LET d == IF p THEN preemptible_dict ELSE standard_dict
    IN  IF DictHas(d, m) THEN VmReturned(DictGet(d, m)) ELSE VmReturned(0)

\* get_vm_cost(machine_type, preemptible): d[machine_type] raises KeyError
\* for a missing key.
get_vm_cost(m, p) ==
    LET d == IF p THEN preemptible_dict ELSE standard_dict
    IN  IF DictHas(d, m) THEN VmReturned(DictGet(d, m)) ELSE VmRaised("KeyError")

\* Machine type names a caller can ask for.
MachineTypes ==
    { "n1-standard-1", "n1-standard-2", "n1-standard-4", "n1-standard-8",
      "n1-standard-16", "n1-standard-32", "n1-standard-64",
      "n1-highmem-2", "n1-highmem-4", "n1-highmem-8", "n1-highmem-16",
      "n1-highmem-32", "n1-highmem-64",
      "n1-highcpu-2", "n1-highcpu-4", "n1-highcpu-8", "n1-highcpu-16",
      "n1-highcpu-32", "n1-highcpu-64",
      "f1-micro", "g1-small",
      "custom-1-1024", "custom-2-4096", "custom-4-8192", "custom-8-16384",
      "us-central1-b/n1-standard-4", "N1-STANDARD-4", "n1-standard-04", "" }

InitPricing ==
    /\ submissions = <<>>
    /\ configuration \in Configurations
    /\ status_df = NotCalled
    /\ metadata = <<>>
    /\ stats_input = <<>>
    /\ stats = StatsNotCalled
    /\ machine_type \in MachineTypes
    /\ preemptible \in BOOLEAN
    /\ vm_cost = VmNotCalled
    /\ DiagnosticsIdle
    /\ RepositoryIdle

CallGetVmCost ==
    /\ vm_cost' = get_vm_cost(machine_type, preemptible)
    /\ UNCHANGED <<submissions, configuration, status_df, metadata,
                   stats_input, stats, machine_type, preemptible>>
    /\ UNCHANGED <<diagnosticsVars, repositoryVars>>

NextPricing == CallGetVmCost

SpecPricing == InitPricing /\ [][NextPricing]_vars

(***************************************************************************)
(* Float cells.                                                            *)
(***************************************************************************)
NaN == [nan |-> TRUE, v |-> 0]
Num(x) == [nan |-> FALSE, v |-> x]

FAdd(a, b) == IF a.nan \/ b.nan THEN NaN ELSE Num(a.v + b.v)
FMul(a, b) == IF a.nan \/ b.nan THEN NaN ELSE Num(a.v * b.v)
FGreater(a, b) == ~a.nan /\ ~b.nan /\ a.v > b.v

\* np.sum of a list of floats
RECURSIVE NpSum(_)
NpSum(xs) == IF xs = <<>> THEN Num(0) ELSE FAdd(Head(xs), NpSum(Tail(xs)))

\* np.max of a non-empty list of floats
NpMax(xs) ==
    IF \E k \in 1..Len(xs) : xs[k].nan THEN NaN
    ELSE Num(CHOOSE m \in {xs[k].v : k \in 1..Len(xs)} :
                \A k \in 1..Len(xs) : xs[k].v <= m)

\* DataFrame.sum(axis=1) over the cells of one row: NaN cells are skipped
RECURSIVE PdSum(_)
PdSum(xs) ==
    IF xs = <<>> THEN Num(0)
    ELSE IF Head(xs).nan THEN PdSum(Tail(xs))
    ELSE FAdd(Head(xs), PdSum(Tail(xs)))

(***************************************************************************)
(* workflow_time, on a workflow or an attempt.                             *)
(***************************************************************************)
\* Faulty variant of workflow_time: start minus end.
workflow_time_reversed(workflow) ==
    IF "end" \in DOMAIN workflow
    THEN Num(convert_time(workflow.start) - convert_time(workflow.end))
    ELSE NaN

workflow_time(workflow) ==
    IF "end" \in DOMAIN workflow
    THEN Num(convert_time(workflow.end) - convert_time(workflow.start))
    ELSE NaN

(***************************************************************************)
(* The remote execution metadata: what get_workflow_metadata can answer.   *)
(***************************************************************************)
MaxRows == 2
MaxAttempts == 3

At(h, m) == [hour |-> h, minute |-> m, offset |-> 0]

Ended(start, end, zoneAndType, pre, st) ==
    [ start |-> start, end |-> end, jes |-> [machineType |-> zoneAndType],
      preemptible |-> pre, executionStatus |-> st ]

Unended(start, zoneAndType, pre, st) ==
    [ start |-> start, jes |-> [machineType |-> zoneAndType],
      preemptible |-> pre, executionStatus |-> st ]

\* machineType strings, in their pieces between "/"
Standard4 == <<"us-central1-b", "n1-standard-4">>
Highmem2 == <<"us-central1-b", "n1-highmem-2">>
Standard64 == <<"us-central1-b", "n1-standard-64">>

Preempted24min == Ended(At(0, 0), At(0, 24), Standard4, TRUE, "Failed")
Preempted3min == Ended(At(0, 24), At(0, 27), Standard4, TRUE, "Failed")
Done72min == Ended(At(0, 27), At(1, 39), Standard4, TRUE, "Done")
DoneOnDemand == Ended(At(0, 27), At(1, 27), Standard4, FALSE, "Done")
PreemptedHighmem == Ended(At(0, 0), At(0, 10), Highmem2, TRUE, "Failed")
StillRunning == Unended(At(0, 30), Standard4, TRUE, "Running")
Unpriced64 == Ended(At(0, 0), At(0, 10), Standard64, TRUE, "Done")
\* an end written with another UTC offset, half an hour before the start
EndsBeforeStart ==
    Ended(At(1, 0), [hour |-> 1, minute |-> 30, offset |-> 1], Standard4,
          TRUE, "Failed")

AttemptPool ==
    { Preempted24min, Preempted3min, Done72min, DoneOnDemand,
      PreemptedHighmem, StillRunning, Unpriced64, EndsBeforeStart }

\* Qualified task names in their pieces between ".", in the order np.sort
\* gives their strings: "wf.align" < "wf.sort" < "wf.sub.align".
TaskOrder == << <<"wf", "align">>, <<"wf", "sort">>, <<"wf", "sub", "align">> >>

\* Workflow names, in the order np.unique gives them.
WorkflowNameOrder == <<"wfA", "wfB">>

\* metadata['calls'] of the cohort-level answers
CallShapes ==
    { [t \in {<<"wf", "align">>, <<"wf", "sort">>} |->
          IF t = <<"wf", "align">>
          THEN <<Preempted24min, Preempted3min, Done72min>>
          ELSE <<DoneOnDemand>>],
      [t \in {<<"wf", "align">>} |-> <<PreemptedHighmem, Done72min>>],
      [t \in {<<"wf", "align">>, <<"wf", "sub", "align">>} |->
          IF t = <<"wf", "align">>
          THEN <<DoneOnDemand>>
          ELSE <<Preempted3min, Done72min>>] }

MetadataJson(name, calls) ==
    [ workflowName |-> name, start |-> At(0, 0), end |-> At(2, 0),
      calls |-> calls ]

MetadataAnswers ==
    { [code |-> 200, json |-> MetadataJson(name, calls)] :
        name \in {"wfA", "wfB"}, calls \in CallShapes }
    \cup { [code |-> 500, json |-> [message |-> "Internal Server Error"]] }

SampleNames == <<"s1", "s2", "s3", "s4">>

\* Row n of a status table as get_submission_status returns it.
StatusRow(n, status) ==
    [ sample_id |-> SampleNames[n], status |-> status, timestamp |-> 3600,
      submission_id |-> n, configuration |-> <<"rnaseq", "_v1">>,
      workflow_id |-> <<n, 1>> ]

StatusTables ==
    { [n \in 1..Len(sts) |-> StatusRow(n, sts[n])] :
        sts \in SeqsUpTo({"Succeeded", "Failed"}, MaxRows) }

(***************************************************************************)
(* get_stats.  The start_time, job_ids and cpu_hours columns are not       *)
(* modelled.                                                               *)
(***************************************************************************)
\* x.rsplit(sep)[-1] on a string given in its pieces between sep
LastPiece(pieces) == pieces[Len(pieces)]

\* Faulty variant of LastAttempt: calls[t][0].
FirstAttempt(attempts) == attempts[1]

\* metadata_dict[i]['calls'][t][-1]
LastAttempt(attempts) == attempts[Len(attempts)]

\* exec_times_h
exec_times_h(attempts) ==
    [k \in 1..Len(attempts) |-> workflow_time(attempts[k])]

\* Faulty variant of was_preemptible: whether any attempt was preemptible.
was_preemptible_any(attempts) ==
    [k \in 1..Len(attempts) |->
        \E j \in 1..Len(attempts) : attempts[j].preemptible]

\* was_preemptible
was_preemptible(attempts) ==
    [k \in 1..Len(attempts) |-> attempts[k].preemptible]

\* Faulty variant of machine_types: the last attempt's type for every attempt.
machine_types_of_last(attempts) ==
    [k \in 1..Len(attempts) |->
        LastPiece(attempts[Len(attempts)].jes.machineType)]

\* machine_types
machine_types(attempts) ==
    [k \in 1..Len(attempts) |-> LastPiece(attempts[k].jes.machineType)]

\* zip(exec_times_h, machine_types, was_preemptible) with the price looked up
\* for each triple
Priced(attempts) ==
    [k \in 1..Len(attempts) |->
        get_vm_cost(machine_types(attempts)[k], was_preemptible(attempts)[k])]

\* get_vm_cost raises for one of the attempts
Unpriced(attempts) ==
    \E k \in 1..Len(attempts) : Priced(attempts)[k].outcome # "returned"

\* The cells of row i of task_dfs[task_name], from the attempts
\* metadata_dict[i]['calls'][t]; get_vm_cost raising for none of them.
TaskCells(attempts) ==
    LET times == exec_times_h(attempts)
        attempts_cell ==
            IF was_preemptible(attempts)[1] THEN Num(Len(attempts)) ELSE NaN
    IN  [ time_h |-> workflow_time(LastAttempt(attempts)),
          total_time_h |-> NpSum(times),
          machine_type |-> LastPiece(LastAttempt(attempts).jes.machineType),
          attempts |-> attempts_cell,
          max_preempt_time_h |->
              IF FGreater(attempts_cell, Num(1))
              THEN NpMax([k \in 1..(Len(attempts) - 1) |->
                            workflow_time(attempts[k])])
              ELSE NaN,
          est_cost |->
              NpSum([k \in 1..Len(attempts) |->
                        FMul(Num(Priced(attempts)[k].price), times[k])]) ]

\* list(...) ordered as np.sort / np.unique order the strings of `order`
SortedBy(order, S) == SelectSeq(order, LAMBDA x : x \in S)

\* The rows with status Succeeded, each with its fetched metadata.
Fetched(df, meta) ==
    LET succeeded == SelectSeq(df, LAMBDA row : row.status = "Succeeded")
    IN  [n \in 1..Len(succeeded) |->
            [row |-> succeeded[n], md |-> meta[succeeded[n].workflow_id].json]]

\* status_df[workflows==w] with the metadata of its rows
Group(fetched, w) == SelectSeq(fetched, LAMBDA f : f.md.workflowName = w)

\* tasks
Tasks(group) == SortedBy(TaskOrder, DOMAIN group[1].md.calls)

\* The iteration for one workflow name raises KeyError: a task of the first
\* row is missing from the calls of another row, or get_vm_cost raises.
GroupRaises(group) ==
    \E k \in 1..Len(Tasks(group)) : \E n \in 1..Len(group) :
        \/ Tasks(group)[k] \notin DOMAIN group[n].md.calls
        \/ Unpriced(group[n].md.calls[Tasks(group)[k]])

\* task_dfs[task_name] as the loop over t leaves it: the table filled last
\* under that name.
TaskDfs(group) ==
    LET tasks == Tasks(group)
        lastOf(b) == CHOOSE k \in 1..Len(tasks) :
                        /\ LastPiece(tasks[k]) = b
                        /\ \A j \in 1..Len(tasks) :
                             LastPiece(tasks[j]) = b => j <= k
    IN  [b \in {LastPiece(tasks[k]) : k \in 1..Len(tasks)} |->
            [n \in 1..Len(group) |->
                [sample_id |-> group[n].row.sample_id,
                 cells |-> TaskCells(group[n].md.calls[tasks[lastOf(b)]])]]]

\* workflow_status_df with the columns est_cost and time_h added
WorkflowStatusDf(group) ==
    LET tasks == Tasks(group)
    IN  [n \in 1..Len(group) |->
            [ sample_id |-> group[n].row.sample_id,
              status |-> group[n].row.status,
              workflow_id |-> group[n].row.workflow_id,
              submission_id |-> group[n].row.submission_id,
              est_cost |->
                  PdSum([k \in 1..Len(tasks) |->
                      TaskDfs(group)[LastPiece(tasks[k])][n].cells.est_cost]),
              time_h |-> workflow_time(group[n].md) ]]

StatsRaised(error) ==
    [outcome |-> error, workflow_status_df |-> <<>>, task_dfs |-> <<>>]

StatsReturned(df, dfs) ==
    [outcome |-> "returned", workflow_status_df |-> df, task_dfs |-> dfs]

\* get_stats(status_df) with df for status_df, the get_workflow_metadata
\* request for workflow id x answering meta[x].
GetStats(df, meta) ==
    LET succeeded == SelectSeq(df, LAMBDA row : row.status = "Succeeded")
    IN  IF \E n \in 1..Len(succeeded) : meta[succeeded[n].workflow_id].code # 200
        THEN StatsRaised("AssertionError")
        ELSE
        LET fetched == Fetched(df, meta)
            workflows == {fetched[n].md.workflowName : n \in 1..Len(fetched)}
            unique == SortedBy(WorkflowNameOrder, workflows)
        IN  IF \E k \in 1..Len(unique) : GroupRaises(Group(fetched, unique[k]))
            THEN StatsRaised("KeyError")
            ELSE IF unique = <<>> THEN StatsRaised("UnboundLocalError")
            ELSE LET last == Group(fetched, unique[Len(unique)])
                 IN  StatsReturned(WorkflowStatusDf(last), TaskDfs(last))

\* A cohort of up to MaxRows rows with cohort-level metadata, or one
\* succeeded row whose workflow has the single task wf.align with up to
\* MaxAttempts attempts.
InitStats ==
    /\ submissions = <<>>
    /\ configuration \in Configurations
    /\ status_df = NotCalled
    /\ \/ /\ stats_input \in StatusTables
          /\ metadata \in [{stats_input[n].workflow_id :
                              n \in 1..Len(stats_input)} -> MetadataAnswers]
       \/ /\ stats_input = <<StatusRow(1, "Succeeded")>>
          /\ \E attempts \in SeqsUpTo(AttemptPool, MaxAttempts) \ {<<>>} :
                metadata = [x \in {<<1, 1>>} |->
                    [code |-> 200,
                     json |-> MetadataJson("wfA",
                                [t \in {<<"wf", "align">>} |-> attempts])]]
    /\ stats = StatsNotCalled
    /\ machine_type = ""
    /\ preemptible = TRUE
    /\ vm_cost = VmNotCalled
    /\ DiagnosticsIdle
    /\ RepositoryIdle

CallGetStats ==
    /\ stats' = GetStats(stats_input, metadata)
    /\ UNCHANGED <<submissions, configuration, status_df, metadata,
                   stats_input, machine_type, preemptible, vm_cost>>
    /\ UNCHANGED <<diagnosticsVars, repositoryVars>>

NextStats == CallGetStats

SpecStats == InitStats /\ [][NextStats]_vars

(***************************************************************************)
(* Status reducer: properties.                                             *)
(***************************************************************************)
Rows(table) == {table[n] : n \in 1..Len(table)}

\* The submissions of the remote list whose configuration name matches.
Matching ==
    {submissions[n] : n \in
        {m \in 1..Len(submissions) :
            Contains(configuration, submissions[m].methodConfigurationName)}}

\* The (entity id, workflow) pairs a submission stands for, by the kind of its
\* root entity.
Derived(s) ==
    LET kind == s.submissionEntity.entityType
        root == s.submissionEntity.entityName
        ws == s.workflows
    IN  IF kind \in {"sample", "participant"} \/
           (kind = "sample_set" /\ Len(ws) = 1)
        THEN {[id |-> root, w |-> ws[1]]}
        ELSE IF kind = "sample_set"
        THEN {[id |-> ws[j].workflowEntity.entityName, w |-> ws[j]] :
                j \in 1..Len(ws)}
        ELSE {}

Touching(id) == {s \in Matching : \E d \in Derived(s) : d.id = id}

DerivedIds == UNION {{d.id : d \in Derived(s)} : s \in Matching}

\* row is what submission s says about the row's entity
ComesFrom(row, s) ==
    /\ row.timestamp = convert_time(s.submissionDate)
    /\ row.submission_id = s.submissionId
    /\ \E d \in Derived(s) :
        /\ d.id = row.sample_id
        /\ row.status = d.w.status
        /\ row.workflow_id = d.w.workflowId

\* C1: a returned status table has exactly one row per derived entity id, and
\* the row's timestamp, status, submission id and workflow id are those of a
\* matching submission touching the entity whose timestamp is the maximum
\* among the matching submissions touching it.
C1_LatestPerEntity ==
    status_df.outcome = "returned" =>
        LET table == status_df.table
        IN  /\ {table[n].sample_id : n \in 1..Len(table)} = DerivedIds
            /\ \A id \in DerivedIds :
                 Cardinality({n \in 1..Len(table) : table[n].sample_id = id}) = 1
            /\ \A row \in Rows(table) :
                 \E s \in Touching(row.sample_id) :
                    /\ ComesFrom(row, s)
                    /\ \A o \in Touching(row.sample_id) :
                         convert_time(o.submissionDate) <= row.timestamp

\* Two submissions for sample s1, Failed at T1 and Succeeded at T2 > T1, in
\* this list order, reduced to Succeeded at T2.
C1_Witness ==
    /\ status_df.outcome = "returned"
    /\ Len(submissions) = 2
    /\ \A n \in 1..2 :
         /\ submissions[n] \in Matching
         /\ submissions[n].submissionEntity =
              [entityType |-> "sample", entityName |-> "s1"]
    /\ submissions[1].workflows[1].status = "Failed"
    /\ submissions[2].workflows[1].status = "Succeeded"
    /\ convert_time(submissions[1].submissionDate)
         < convert_time(submissions[2].submissionDate)
    /\ Len(status_df.table) = 1
    /\ status_df.table[1].status = "Succeeded"
    /\ status_df.table[1].timestamp = convert_time(submissions[2].submissionDate)

\* The remote list in the order given by the permutation p of its indexes.
Reordered(p) == [n \in 1..Len(submissions) |-> submissions[p[n]]]

AllOk == [k \in 1..Len(submissions) |-> 200]

\* Every reordering of the remote list yields the same record per entity id.
SameUnderReordering ==
    \A p \in Permutations(1..Len(submissions)) :
        Rows(GetSubmissionStatus(Reordered(p), configuration, 200, AllOk).table)
            = Rows(status_df.table)

\* No two matching submissions touching one entity id have equal timestamps.
DistinctTimestamps ==
    \A a, b \in Matching :
        (a # b /\ (\E d \in Derived(a) : \E e \in Derived(b) : d.id = e.id))
            => convert_time(a.submissionDate) # convert_time(b.submissionDate)

\* C2 as stated: the record of every entity id is the same for every
\* permutation of the list, timestamps not assumed pairwise distinct.
C2_OrderIndependent ==
    status_df.outcome = "returned" => SameUnderReordering

\* C2 as amended: the record of every entity id is the same for every
\* permutation of the list, provided that no two matching submissions touching
\* the same entity id have equal timestamps.
C2_OrderIndependentNoTies ==
    (status_df.outcome = "returned" /\ DistinctTimestamps)
        => SameUnderReordering

\* Two matching submissions on one entity, the newer one first in the list.
C2_Witness ==
    /\ status_df.outcome = "returned"
    /\ DistinctTimestamps
    /\ Len(submissions) = 2
    /\ \A n \in 1..2 : submissions[n] \in Matching
    /\ \E d \in Derived(submissions[1]) : \E e \in Derived(submissions[2]) :
         d.id = e.id /\ d.w.status # e.w.status
    /\ convert_time(submissions[1].submissionDate)
         > convert_time(submissions[2].submissionDate)

\* C3: every row of a returned table is keyed and filled as the root-entity
\* kind of its submission prescribes: the root entity name and the single
\* workflow's status and id for a sample, a participant or a sample_set with
\* one workflow; the member workflow's own entity name, status and id for a
\* sample_set with several workflows; and every such candidate of a matching
\* submission is the row of its entity unless a submission at least as recent
\* holds it.
C3_EntityIdByKind ==
    status_df.outcome = "returned" =>
        LET table == status_df.table
        IN  /\ \A row \in Rows(table) :
                 \E s \in Matching :
                    /\ s.submissionId = row.submission_id
                    /\ \E d \in Derived(s) :
                         /\ d.id = row.sample_id
                         /\ d.w.workflowId = row.workflow_id
                         /\ d.w.status = row.status
            /\ \A s \in Matching : \A d \in Derived(s) :
                 \E row \in Rows(table) :
                    /\ row.sample_id = d.id
                    /\ \/ /\ row.submission_id = s.submissionId
                          /\ row.workflow_id = d.w.workflowId
                          /\ row.status = d.w.status
                       \/ /\ row.submission_id # s.submissionId
                          /\ row.timestamp >= convert_time(s.submissionDate)

\* A sample_set submission with two workflows yields the rows s1 and s2, each
\* with its own workflow's status and id, next to a row keyed by the set name
\* that comes from a sample_set submission with a single workflow.
C3_Witness ==
    /\ status_df.outcome = "returned"
    /\ \E s \in Matching :
         /\ s.submissionEntity.entityType = "sample_set"
         /\ Len(s.workflows) = 2
         /\ s.workflows[1].status # s.workflows[2].status
         /\ \A j \in 1..2 :
              \E row \in Rows(status_df.table) :
                 /\ row.sample_id = s.workflows[j].workflowEntity.entityName
                 /\ row.workflow_id = s.workflows[j].workflowId
                 /\ row.status = s.workflows[j].status
    /\ \E s \in Matching :
         /\ s.submissionEntity.entityType = "sample_set"
         /\ Len(s.workflows) = 1
         /\ \E row \in Rows(status_df.table) :
              /\ row.sample_id = "set1"
              /\ row.submission_id = s.submissionId

(***************************************************************************)
(* VM costs: properties.                                                   *)
(***************************************************************************)
\* The table the preemptible flag selects, as written in the source.
Written(p) == IF p THEN preemptible_dict ELSE standard_dict

\* C9: for every (machine type, price) entry written in the table selected by
\* the preemptible flag, get_vm_cost of that machine type returns the written
\* price.
C9_RoundTrip ==
    vm_cost.outcome # "none" =>
        \A n \in 1..Len(Written(preemptible)) :
            Written(preemptible)[n][1] = machine_type =>
                vm_cost = VmReturned(Written(preemptible)[n][2])

\* C10: get_vm_cost of a machine type absent from the table selected by the
\* preemptible flag ends in an error and returns no price.
C10_AbsentKeyRaises ==
    (/\ vm_cost.outcome # "none"
     /\ \A n \in 1..Len(Written(preemptible)) :
            Written(preemptible)[n][1] # machine_type)
        => vm_cost.outcome \notin {"returned", "none"}

\* n1-standard-64 is priced on demand only; asked for as preemptible it raises.
C10_Witness ==
    /\ machine_type = "n1-standard-64"
    /\ preemptible
    /\ get_vm_cost(machine_type, FALSE).outcome = "returned"
    /\ vm_cost.outcome = "KeyError"

(***************************************************************************)
(* get_stats: properties.                                                  *)
(***************************************************************************)
SucceededRows == SelectSeq(stats_input, LAMBDA row : row.status = "Succeeded")

FetchFails(row) == metadata[row.workflow_id].code # 200

\* The input table without the succeeded rows whose metadata fetch fails.
WithoutFailedFetches ==
    SelectSeq(stats_input,
              LAMBDA row : row.status = "Succeeded" => ~FetchFails(row))

\* C4: when the metadata fetch fails for some of the succeeded workflows and
\* the others aggregate, the call still returns, and returns the aggregation
\* of the others, the failing entities excluded.
C4_PartialFailureTolerated ==
    (/\ stats.outcome # "none"
     /\ \E n \in 1..Len(SucceededRows) : FetchFails(SucceededRows[n])
     /\ GetStats(WithoutFailedFetches, metadata).outcome = "returned")
        => stats = GetStats(WithoutFailedFetches, metadata)

\* C5: when every metadata fetch succeeds, the returned workflow summary has
\* exactly one row per succeeded input row, in input order.
C5_OneRowPerSucceeded ==
    stats.outcome = "returned" =>
        [n \in 1..Len(stats.workflow_status_df) |->
            stats.workflow_status_df[n].sample_id]
        = [n \in 1..Len(SucceededRows) |-> SucceededRows[n].sample_id]

\* The calls of the metadata of the input row of an entity.
CallsOf(sample_id) ==
    LET row == CHOOSE r \in {stats_input[n] : n \in 1..Len(stats_input)} :
                    r.sample_id = sample_id
    IN  metadata[row.workflow_id].json.calls

Elapsed(a) == convert_time(a.end) - convert_time(a.start)

AllEnded(attempts) == \A k \in 1..Len(attempts) : "end" \in DOMAIN attempts[k]

\* the price of an attempt's own machine type under its own preemptible flag
HourlyPrice(a) ==
    get_vm_cost(a.jes.machineType[Len(a.jes.machineType)], a.preemptible).price

BilledCost(attempts) ==
    LET S[k \in 0..Len(attempts)] ==
            IF k = 0 THEN 0
            ELSE S[k - 1] + Elapsed(attempts[k]) * HourlyPrice(attempts[k])
    IN  S[Len(attempts)]

TotalElapsed(attempts) ==
    LET S[k \in 0..Len(attempts)] ==
            IF k = 0 THEN 0 ELSE S[k - 1] + Elapsed(attempts[k])
    IN  S[Len(attempts)]

\* The rows of the returned per-task tables: <<task name, row>>.
TaskRows ==
    UNION {{<<b, stats.task_dfs[b][n]>> : n \in 1..Len(stats.task_dfs[b])} :
            b \in DOMAIN stats.task_dfs}

\* C6: in every row of every returned per-task table, est_cost is the sum
\* over all attempts of the task for that entity of the attempt's elapsed time
\* times the hourly price of the attempt's own machine type under its own
\* preemptible flag (NaN when an attempt has no end).
C6_CostOverAllAttempts ==
    stats.outcome = "returned" =>
        \A br \in TaskRows :
            \E t \in DOMAIN CallsOf(br[2].sample_id) :
                /\ t[Len(t)] = br[1]
                /\ br[2].cells.est_cost =
                     IF AllEnded(CallsOf(br[2].sample_id)[t])
                     THEN Num(BilledCost(CallsOf(br[2].sample_id)[t]))
                     ELSE NaN

\* Three preemptible attempts of 0.4 h, 0.05 h and 1.2 h on n1-standard-4 at
\* 0.04 per hour cost 0.066: 2376000 in units of 1e-4/3600.
C6_Witness ==
    /\ stats.outcome = "returned"
    /\ Len(stats_input) = 1
    /\ CallsOf("s1")[<<"wf", "align">>]
         = <<Preempted24min, Preempted3min, Done72min>>
    /\ stats.task_dfs["align"][1].cells.est_cost = Num(2376000)

\* C7: in every row of every returned per-task table, time_h is the elapsed
\* time of the last attempt only and total_time_h the sum of the elapsed
\* times of all attempts (NaN where an end is missing), and total_time_h is
\* at least time_h when every attempt has end >= start.
C7_LastAndTotalTime ==
    stats.outcome = "returned" =>
        \A br \in TaskRows :
            \E t \in DOMAIN CallsOf(br[2].sample_id) :
                LET attempts == CallsOf(br[2].sample_id)[t]
                    last == attempts[Len(attempts)]
                    cells == br[2].cells
                IN  /\ t[Len(t)] = br[1]
                    /\ cells.time_h =
                         IF "end" \in DOMAIN last THEN Num(Elapsed(last))
                         ELSE NaN
                    /\ cells.total_time_h =
                         IF AllEnded(attempts) THEN Num(TotalElapsed(attempts))
                         ELSE NaN
                    /\ (/\ AllEnded(attempts)
                        /\ \A k \in 1..Len(attempts) : Elapsed(attempts[k]) >= 0)
                         => cells.total_time_h.v >= cells.time_h.v

\* A task with two preempted attempts before the one that completed it:
\* time_h is 1.2 h and total_time_h 1.65 h.
C7_Witness ==
    /\ stats.outcome = "returned"
    /\ Len(stats_input) = 1
    /\ CallsOf("s1")[<<"wf", "align">>]
         = <<Preempted24min, Preempted3min, Done72min>>
    /\ stats.task_dfs["align"][1].cells.time_h = Num(4320)
    /\ stats.task_dfs["align"][1].cells.total_time_h = Num(5940)

\* The wasted preempted attempts one can add: preemptible, failed, with
\* end >= start and a priced machine type.
Wasted ==
    {a \in AttemptPool :
        /\ a.preemptible
        /\ a.executionStatus = "Failed"
        /\ "end" \in DOMAIN a
        /\ Elapsed(a) >= 0
        /\ get_vm_cost(a.jes.machineType[Len(a.jes.machineType)],
                       TRUE).outcome = "returned"}

InsertAt(attempts, k, a) ==
    SubSeq(attempts, 1, k - 1) \o <<a>> \o SubSeq(attempts, k, Len(attempts))

\* The remote metadata with attempt a inserted as attempt k of task t of
\* the workflow of row n of the input.
WithWasted(n, t, k, a) ==
    LET x == stats_input[n].workflow_id
    IN  [metadata EXCEPT ![x].json.calls[t] = InsertAt(@, k, a)]

\* The places where an attempt can be inserted before the last attempt of a
\* task of an aggregated entity: <<row, task, index>>.
Insertions ==
    {ntk \in (1..Len(stats_input)) \X {TaskOrder[j] : j \in 1..Len(TaskOrder)}
              \X (1..(MaxAttempts + 1)) :
        /\ stats_input[ntk[1]].status = "Succeeded"
        /\ ntk[2] \in DOMAIN metadata[stats_input[ntk[1]].workflow_id].json.calls
        /\ ntk[3] <= Len(metadata[stats_input[ntk[1]].workflow_id]
                            .json.calls[ntk[2]])}

NotDecreased(old, new) ==
    /\ old.nan <=> new.nan
    /\ ~old.nan => new.v >= old.v

\* C8: whenever get_stats returns, it also returns for the same input with
\* one wasted preempted attempt inserted before the last attempt of any task,
\* and in no row of any per-task table is est_cost or total_time_h smaller
\* than without the inserted attempt.
C8_Monotonic ==
    stats.outcome = "returned" =>
        \A ntk \in Insertions : \A a \in Wasted :
            LET more == GetStats(stats_input,
                                 WithWasted(ntk[1], ntk[2], ntk[3], a))
            IN  /\ more.outcome = "returned"
                /\ DOMAIN more.task_dfs = DOMAIN stats.task_dfs
                /\ \A b \in DOMAIN stats.task_dfs :
                     \A n \in 1..Len(stats.task_dfs[b]) :
                        /\ NotDecreased(stats.task_dfs[b][n].cells.est_cost,
                                        more.task_dfs[b][n].cells.est_cost)
                        /\ NotDecreased(stats.task_dfs[b][n].cells.total_time_h,
                                        more.task_dfs[b][n].cells.total_time_h)

\* A returned aggregation for which an inserted wasted attempt strictly
\* raises both est_cost and total_time_h of the task.
C8_Witness ==
    /\ stats.outcome = "returned"
    /\ \E ntk \in Insertions : \E a \in Wasted :
         LET more == GetStats(stats_input,
                              WithWasted(ntk[1], ntk[2], ntk[3], a))
             b == ntk[2][Len(ntk[2])]
         IN  /\ more.outcome = "returned"
             /\ ntk[3] > 1
             /\ \E n \in 1..Len(stats.task_dfs[b]) :
                  /\ FGreater(more.task_dfs[b][n].cells.est_cost,
                              stats.task_dfs[b][n].cells.est_cost)
                  /\ FGreater(more.task_dfs[b][n].cells.total_time_h,
                              stats.task_dfs[b][n].cells.total_time_h)

(***************************************************************************)
(* Failure diagnostics: display_status and get_stderr.                     *)
(*                                                                         *)
(* A remote request is a record [api, arg]; arg is a sequence (empty, a    *)
(* submission id, a workflow id, or the pieces of an object path).  The    *)
(* text of a bucket object is a sequence too.                              *)
(***************************************************************************)
Request(api, arg) == [api |-> api, arg |-> arg]

\* The attempt a, with the path of the object holding its stderr.
WithStderr(a, path) ==
    [f \in DOMAIN a \cup {"stderr"} |-> IF f = "stderr" THEN path ELSE a[f]]

\* pieces of gs://<bucket>/<entity>/<task>/attempt-<k>/stderr
StderrPath(e, task, k) == <<e, task, k>>

SortFailed == Ended(At(1, 39), At(1, 45), Standard4, FALSE, "Failed")
Retryable == Ended(At(0, 0), At(0, 24), Standard4, TRUE, "RetryableFailure")

\* calls of the workflow run for entity e, by how far the run got
CallsAllDone(e) ==
    [t \in {<<"wf", "align">>, <<"wf", "sort">>} |->
        IF t = <<"wf", "align">>
        THEN << WithStderr(Preempted24min, StderrPath(e, "align", 1)),
                WithStderr(Done72min, StderrPath(e, "align", 2)) >>
        ELSE << WithStderr(DoneOnDemand, StderrPath(e, "sort", 1)) >>]

CallsAlignFailed(e) ==
    [t \in {<<"wf", "align">>} |->
        << WithStderr(Preempted24min, StderrPath(e, "align", 1)),
           WithStderr(Preempted3min, StderrPath(e, "align", 2)) >>]

CallsSortRunning(e) ==
    [t \in {<<"wf", "align">>, <<"wf", "sort">>} |->
        IF t = <<"wf", "align">>
        THEN << WithStderr(Done72min, StderrPath(e, "align", 1)) >>
        ELSE << WithStderr(StillRunning, StderrPath(e, "sort", 1)) >>]

CallsSortFailed(e, k) ==
    [t \in {<<"wf", "align">>, <<"wf", "sort">>} |->
        IF t = <<"wf", "align">>
        THEN << WithStderr(Preempted24min, StderrPath(e, "align", 1)),
                WithStderr(Done72min, StderrPath(e, "align", 2)) >>
        ELSE << WithStderr(SortFailed, StderrPath(e, "sort", k)) >>]

CallsSortRetryable(e) ==
    [t \in {<<"wf", "align">>, <<"wf", "sort">>} |->
        IF t = <<"wf", "align">>
        THEN << WithStderr(Done72min, StderrPath(e, "align", 1)) >>
        ELSE << WithStderr(Retryable, StderrPath(e, "sort", 1)) >>]

\* The answers of get_workflow_metadata for the workflows run for entity e:
\* those of s1 got as far as sort, those of s2 include a run still going,
\* a failed sort whose log is gone and an attempt being retried.
DiagnosticCalls(e) ==
    IF e = "s1"
    THEN { CallsAllDone(e), CallsAlignFailed(e), CallsSortFailed(e, 1) }
    ELSE { CallsSortRunning(e), CallsAlignFailed(e), CallsSortFailed(e, 2),
           CallsSortRetryable(e) }

DiagnosticAnswers(e) ==
    { [code |-> 200, json |-> MetadataJson("wfA", calls)] :
        calls \in DiagnosticCalls(e) }
    \cup IF e = "s1"
         THEN {[code |-> 500, json |-> [message |-> "Internal Server Error"]]}
         ELSE {}

DiagnosticEntities == {"s1", "s2"}

\* The bucket: every stderr object but the one of a second sort attempt.
StoredPaths ==
    { StderrPath(e, task, k) :
        e \in DiagnosticEntities, task \in {"align", "sort"}, k \in 1..2 }
    \ { StderrPath(e, "sort", 2) : e \in DiagnosticEntities }

Bucket == [path \in StoredPaths |-> <<"stderr of">> \o path]

\* status_code
status_code == << <<"Running", 1>>, <<"Done", 2>>, <<"Failed", 0 - 1>> >>

\* The first index of seq whose element satisfies Bad, Len(seq) + 1 if none.
FirstBad(seq, Bad(_)) ==
    IF \E n \in 1..Len(seq) : Bad(seq[n])
    THEN CHOOSE n \in 1..Len(seq) :
            Bad(seq[n]) /\ \A m \in 1..(n - 1) : ~Bad(seq[m])
    ELSE Len(seq) + 1

\* metadata['calls'][t][-1]['executionStatus']
LastStatus(calls, t) == LastAttempt(calls[t]).executionStatus

\* The outcome of computing one cell: its value, or a KeyError.
Cell(v) == [raises |-> FALSE, v |-> v]
CellKeyError == [raises |-> TRUE, v |-> 0]

\* status_code[status]
StatusCode(status) ==
    IF DictHas(status_code, status)
    THEN Cell(DictGet(status_code, status))
    ELSE CellKeyError

\* Faulty variant of StateCell: status_code.get(..., 0).
StateCellDefault(calls, t) ==
    IF t \in DOMAIN calls
    THEN Cell(StatusCode(LastStatus(calls, t)).v)
    ELSE Cell(0)

\* Faulty variant of StateCell: the first attempt's status.
StateCellFirst(calls, t) ==
    IF t \in DOMAIN calls
    THEN StatusCode(FirstAttempt(calls[t]).executionStatus)
    ELSE Cell(0)

\* One cell of state_df.
StateCell(calls, t) ==
    IF t \in DOMAIN calls
    THEN StatusCode(LastStatus(calls, t))
    ELSE Cell(0)

\* status_code[...] raises KeyError for a task of workflow_tasks.
CellRaises(calls, workflow_tasks) ==
    \E k \in 1..Len(workflow_tasks) : StateCell(calls, workflow_tasks[k]).raises

\* i.split('.')[1] of a column name
SecondPiece(t) == t[2]

\* display_status after get_submission_status gave st, against the
\* workflow metadata meta.  Two task names with one second piece are not
\* in the pools, nor a task name of a single piece.
DisplayStatus(st, meta) ==
    IF st.outcome # "returned" THEN Raised(st.outcome)
    ELSE
    LET first == meta[st.table[1].workflow_id]
    IN  IF first.code # 200 THEN Raised("AssertionError")
        ELSE
        LET workflow_tasks == SortedBy(TaskOrder, DOMAIN first.json.calls)
            fail_idx == SelectSeq(st.table,
                                  LAMBDA row : row.status # "Succeeded")
            RowRaises(row) ==
                \/ meta[row.workflow_id].code # 200
                \/ CellRaises(meta[row.workflow_id].json.calls,
                              workflow_tasks)
            bad == FirstBad(fail_idx, RowRaises)
            columns == {SecondPiece(workflow_tasks[k]) :
                            k \in 1..Len(workflow_tasks)}
            TaskOf(c) == CHOOSE t \in DOMAIN first.json.calls :
                            SecondPiece(t) = c
        IN  IF bad <= Len(fail_idx)
            THEN IF meta[fail_idx[bad].workflow_id].code # 200
                 THEN Raised("AssertionError")
                 ELSE Raised("KeyError")
            ELSE Returned(
                [n \in 1..Len(fail_idx) |->
                    [ sample_id |-> fail_idx[n].sample_id,
                      cells |-> [c \in columns |->
                          StateCell(meta[fail_idx[n].workflow_id].json.calls,
                                    TaskOf(c)).v],
                      workflow_id |-> fail_idx[n].workflow_id,
                      submission_id |-> fail_idx[n].submission_id ]])

\* The columns of the returned state_df are kept beside its rows.
StateReturned(columns, table) ==
    [outcome |-> "returned", table |-> table, columns |-> columns]

\* The task columns of state_df after the rename.
StateColumns(st, meta) ==
    {SecondPiece(t) : t \in DOMAIN meta[st.table[1].workflow_id].json.calls}

\* display_status(configuration), get_submission_status having given st.
display_status(st, meta) ==
    LET r == DisplayStatus(st, meta)
    IN  IF r.outcome = "returned"
        THEN StateReturned(StateColumns(st, meta), r.table)
        ELSE r

StderrReturned(texts) == [outcome |-> "returned", texts |-> texts]
StderrRaised(error) == [outcome |-> error, texts |-> <<>>]

\* Faulty variant of FailedRows: every row where the task has a state.
StartedRows(state, name) ==
    SelectSeq(state.table, LAMBDA row : row.cells[name] # 0)

\* state_df[state_df[task_name]==-1]
FailedRows(state, name) ==
    SelectSeq(state.table, LAMBDA row : row.cells[name] = 0 - 1)

\* [i for i in metadata['calls'].keys() if i.split('.')[1]==task_name]
KeysNamed(calls, name) ==
    SelectSeq(SortedBy(TaskOrder, DOMAIN calls),
              LAMBDA t : SecondPiece(t) = name)

\* stderr_path of one row; evaluated only where a key is named task_name
stderr_path(row, name, meta) ==
    LastAttempt(meta[row.workflow_id].json.calls[
        KeysNamed(meta[row.workflow_id].json.calls, name)[1]]).stderr

\* The error one iteration of the loop of get_stderr raises, "" if none.
StderrRowError(row, name, meta, bucket) ==
    IF meta[row.workflow_id].code # 200 THEN "AssertionError"
    ELSE IF KeysNamed(meta[row.workflow_id].json.calls, name) = <<>>
         THEN "IndexError"
    ELSE IF stderr_path(row, name, meta) \notin DOMAIN bucket
         THEN "CalledProcessError"
    ELSE ""

\* get_stderr(state_df, task_name) against the metadata meta and the bucket
get_stderr(state, name, meta, bucket) ==
    IF name \notin state.columns THEN StderrRaised("KeyError")
    ELSE
    LET df == FailedRows(state, name)
        Bad(row) == StderrRowError(row, name, meta, bucket) # ""
        bad == FirstBad(df, Bad)
    IN  IF bad <= Len(df)
        THEN StderrRaised(StderrRowError(df[bad], name, meta, bucket))
        ELSE StderrReturned(
                [n \in 1..Len(df) |-> bucket[stderr_path(df[n], name, meta)]])

(***************************************************************************)
(* The remote requests each operation issues, in order, up to and          *)
(* including the one whose answer makes it raise.                          *)
(***************************************************************************)
Min(a, b) == IF a < b THEN a ELSE b

RECURSIVE Flatten(_)
Flatten(seqs) ==
    IF seqs = <<>> THEN <<>> ELSE Head(seqs) \o Flatten(Tail(seqs))

\* Faulty variant of GsutilCat: the object is removed after reading.
GsutilCatRm(path) == <<Request("gsutil cat", path), Request("gsutil rm", path)>>

\* subprocess.check_output('gsutil cat '+stderr_path, ...)
GsutilCat(path) == <<Request("gsutil cat", path)>>

StatusRequests(subs, config, listCode, subCode) ==
    <<Request("list_submissions", <<>>)>> \o
    IF listCode # 200 THEN <<>>
    ELSE LET kept == FilterByConfiguration(subs, config)
             Bad(s) == subCode[s.submissionId] # 200
             upto == Min(FirstBad(kept, Bad), Len(kept))
         IN  [n \in 1..upto |->
                Request("get_submission", <<kept[n].submissionId>>)]

DisplayRequests(st, meta) ==
    IF st.outcome # "returned" THEN <<>>
    ELSE LET first == meta[st.table[1].workflow_id]
         IN  <<Request("get_workflow_metadata", st.table[1].workflow_id)>> \o
             IF first.code # 200 THEN <<>>
             ELSE LET workflow_tasks ==
                          SortedBy(TaskOrder, DOMAIN first.json.calls)
                      fail_idx == SelectSeq(st.table,
                                      LAMBDA row : row.status # "Succeeded")
                      Bad(row) ==
                          \/ meta[row.workflow_id].code # 200
                          \/ CellRaises(meta[row.workflow_id].json.calls,
                                        workflow_tasks)
                      upto == Min(FirstBad(fail_idx, Bad), Len(fail_idx))
                  IN  [n \in 1..upto |->
                         Request("get_workflow_metadata",
                                 fail_idx[n].workflow_id)]

StderrRequests(state, name, meta, bucket) ==
    IF name \notin state.columns THEN <<>>
    ELSE LET df == FailedRows(state, name)
             Bad(row) == StderrRowError(row, name, meta, bucket) # ""
             upto == Min(FirstBad(df, Bad), Len(df))
         IN  Flatten([n \in 1..upto |->
                <<Request("get_workflow_metadata", df[n].workflow_id)>> \o
                IF StderrRowError(df[n], name, meta, bucket)
                      \in {"AssertionError", "IndexError"}
                THEN <<>>
                ELSE GsutilCat(stderr_path(df[n], name, meta))])

StatsRequests(df, meta) ==
    LET succeeded == SelectSeq(df, LAMBDA row : row.status = "Succeeded")
        Bad(row) == meta[row.workflow_id].code # 200
        upto == Min(FirstBad(succeeded, Bad), Len(succeeded))
    IN  [n \in 1..upto |->
            Request("get_workflow_metadata", succeeded[n].workflow_id)]

\* The bucket after the remote served the requests reqs.
RECURSIVE Served(_, _)
Served(bucket, reqs) ==
    IF reqs = <<>> THEN bucket
    ELSE Served(IF Head(reqs).api = "gsutil rm"
                THEN [path \in DOMAIN bucket \ {Head(reqs).arg} |->
                        bucket[path]]
                ELSE bucket,
                Tail(reqs))

(***************************************************************************)
(* Failure diagnostics: specification.  The four read operations run in    *)
(* any order against one workspace; each logs the requests it issued and   *)
(* the remote serves them.                                                 *)
(***************************************************************************)
DiagnosticShapes ==
    { [entityName |-> "s1", status |-> "Failed"],
      [entityName |-> "s1", status |-> "Succeeded"],
      [entityName |-> "s2", status |-> "Running"] }

\* Submission k of one sample, submitted at hour k.
DiagnosticSubmission(k, sh) ==
    MkSubmission(k, << [entityType |-> "sample", entityName |-> sh.entityName,
                        workflows |-> << <<sh.status, sh.entityName>> >>],
                       <<"rnaseq", "_v1">>, At(k, 0) >>)

DiagnosticLists ==
    { [k \in 1..Len(shs) |-> DiagnosticSubmission(k, shs[k])] :
        shs \in SeqsUpTo(DiagnosticShapes, MaxSubs) }

TaskNames == {"align", "sort", "qc"}

InitDiagnostics ==
    /\ submissions \in DiagnosticLists
    /\ configuration \in Configurations
    /\ status_df = NotCalled
    /\ \E a1 \in DiagnosticAnswers("s1") : \E a2 \in DiagnosticAnswers("s2") :
          metadata = [x \in {<<k, 1>> : k \in 1..Len(submissions)} |->
                        IF submissions[x[1]].submissionEntity.entityName = "s1"
                        THEN a1 ELSE a2]
    /\ stats_input =
          GetSubmissionStatus(submissions, configuration, 200,
                              [k \in 1..Len(submissions) |-> 200]).table
    /\ stats = StatsNotCalled
    /\ machine_type = ""
    /\ preemptible = FALSE
    /\ vm_cost = VmNotCalled
    /\ objects = Bucket
    /\ state_df = NotCalled
    /\ task_name = ""
    /\ stderrs = StderrNotCalled
    /\ requests = <<>>
    /\ RepositoryIdle

\* The remote serves the requests reqs of one call.
Serve(reqs) ==
    /\ requests' = reqs
    /\ objects' = Served(objects, reqs)
    /\ UNCHANGED <<submissions, metadata>>

\* The answers of the submission requests to one call: the call sees no
\* answer after the first that is not 200, so at most one is not 200.
SubmissionAnswers ==
    {[list |-> 500, sub |-> [k \in 1..Len(submissions) |-> 200]]}
    \cup { [list |-> 200,
            sub |-> [k \in 1..Len(submissions) |->
                        IF k = bad THEN 500 ELSE 200]] :
            bad \in 0..Len(submissions) }

ReadSubmissionStatus ==
    \E answer \in SubmissionAnswers :
        /\ status_df' = GetSubmissionStatus(submissions, configuration,
                                            answer.list, answer.sub)
        /\ Serve(StatusRequests(submissions, configuration,
                                answer.list, answer.sub))
        /\ UNCHANGED <<configuration, stats_input, stats, machine_type,
                       preemptible, vm_cost, state_df, task_name, stderrs>>
        /\ UNCHANGED repositoryVars

CallDisplayStatus ==
    \E answer \in SubmissionAnswers :
        LET st == GetSubmissionStatus(submissions, configuration,
                                      answer.list, answer.sub)
        IN  /\ state_df' = display_status(st, metadata)
            /\ Serve(StatusRequests(submissions, configuration,
                                    answer.list, answer.sub)
                     \o DisplayRequests(st, metadata))
            /\ UNCHANGED <<configuration, status_df, stats_input, stats,
                           machine_type, preemptible, vm_cost, task_name,
                           stderrs>>
            /\ UNCHANGED repositoryVars

CallGetStderr ==
    /\ state_df.outcome = "returned"
    /\ \E name \in TaskNames :
        /\ task_name' = name
        /\ stderrs' = get_stderr(state_df, name, metadata, objects)
        /\ Serve(StderrRequests(state_df, name, metadata, objects))
    /\ UNCHANGED <<configuration, status_df, stats_input, stats,
                   machine_type, preemptible, vm_cost, state_df>>
    /\ UNCHANGED repositoryVars

ReadStats ==
    /\ stats' = GetStats(stats_input, metadata)
    /\ Serve(StatsRequests(stats_input, metadata))
    /\ UNCHANGED <<configuration, status_df, stats_input, machine_type,
                   preemptible, vm_cost, state_df, task_name, stderrs>>
    /\ UNCHANGED repositoryVars

NextDiagnostics ==
    \/ ReadSubmissionStatus
    \/ CallDisplayStatus
    \/ CallGetStderr
    \/ ReadStats

SpecDiagnostics == InitDiagnostics /\ [][NextDiagnostics]_vars

(***************************************************************************)
(* Failure diagnostics: properties.                                        *)
(***************************************************************************)
\* The table get_submission_status gives when every request answers 200.
Reduced ==
    GetSubmissionStatus(submissions, configuration, 200,
                        [k \in 1..Len(submissions) |-> 200]).table

NotSucceeded == SelectSeq(Reduced, LAMBDA row : row.status # "Succeeded")

\* The calls in the metadata of the workflow of a row.
RowCalls(row) == metadata[row.workflow_id].json.calls

\* The tasks of the reference workflow with column name c.
ColumnTasks(c) == {t \in DOMAIN RowCalls(Reduced[1]) : SecondPiece(t) = c}

\* The code the state matrix documents for an execution status.
DocumentedCode(status) ==
    CASE status = "Running" -> 1
      [] status = "Done" -> 2
      [] status = "Failed" -> 0 - 1

\* C11: a returned state matrix has exactly one row per entity whose reduced
\* status is not Succeeded, in the order of the status table; each task
\* cell is 0 when the task is not in that entity's metadata and otherwise
\* the code of the executionStatus of the task's last attempt (Running 1,
\* Done 2, Failed -1); no other cell value occurs.
C11_StateMatrix ==
    state_df.outcome = "returned" =>
        /\ Len(state_df.table) = Len(NotSucceeded)
        /\ \A n \in 1..Len(NotSucceeded) :
            LET row == state_df.table[n]
                calls == RowCalls(NotSucceeded[n])
            IN  /\ row.sample_id = NotSucceeded[n].sample_id
                /\ row.workflow_id = NotSucceeded[n].workflow_id
                /\ \A c \in state_df.columns : \A t \in ColumnTasks(c) :
                    /\ row.cells[c] \in {0, 1, 2, 0 - 1}
                    /\ t \notin DOMAIN calls => row.cells[c] = 0
                    /\ t \in DOMAIN calls =>
                        /\ calls[t][Len(calls[t])].executionStatus
                              \in {"Running", "Done", "Failed"}
                        /\ row.cells[c] = DocumentedCode(
                              calls[t][Len(calls[t])].executionStatus)

\* A matrix beside a succeeded entity, with a task absent from the metadata
\* of its row and a task whose last attempt, not its first, ended Failed.
C11_Witness ==
    /\ state_df.outcome = "returned"
    /\ state_df.table # <<>>
    /\ Len(state_df.table) < Len(Reduced)
    /\ \E n \in 1..Len(state_df.table) : \E c \in state_df.columns :
          /\ state_df.table[n].cells[c] = 0
          /\ \E t \in ColumnTasks(c) : t \notin DOMAIN RowCalls(NotSucceeded[n])
    /\ \E n \in 1..Len(state_df.table) : \E c \in state_df.columns :
       \E t \in ColumnTasks(c) :
          /\ t \in DOMAIN RowCalls(NotSucceeded[n])
          /\ Len(RowCalls(NotSucceeded[n])[t]) > 1
          /\ state_df.table[n].cells[c] = 0 - 1

\* A row of the failing entities has a task whose last attempt has a status
\* outside Running, Done, Failed; the task is among the tasks `among`.
UnknownStatusIn(among) ==
    \E n \in 1..Len(NotSucceeded) :
        /\ metadata[NotSucceeded[n].workflow_id].code = 200
        /\ \E t \in DOMAIN RowCalls(NotSucceeded[n]) \cap among :
              LET attempts == RowCalls(NotSucceeded[n])[t]
              IN  attempts[Len(attempts)].executionStatus
                      \notin {"Running", "Done", "Failed"}

AllTasks == {TaskOrder[k] : k \in 1..Len(TaskOrder)}

\* The tasks of the workflow of the first row of the status table
ReferenceTasks ==
    IF Reduced # <<>> /\ metadata[Reduced[1].workflow_id].code = 200
    THEN DOMAIN RowCalls(Reduced[1])
    ELSE {}

\* C12 as stated: display_status never returns a matrix when any task in
\* the metadata of a failing entity has a last attempt with a status
\* outside Running, Done, Failed.
C12_UnknownStatusFails ==
    UnknownStatusIn(AllTasks) => state_df.outcome # "returned"

\* C12, amended: display_status ends in an error, and returns no matrix,
\* when a task of the first row's workflow has, in the metadata of a
\* failing entity, a last attempt with a status outside Running, Done,
\* Failed.
C12_UnknownColumnStatusFails ==
    (state_df.outcome # "none" /\ UnknownStatusIn(ReferenceTasks))
        => state_df.outcome \in {"KeyError", "AssertionError"}

\* Every request answered 200, the unknown status made the call raise.
C12_Witness ==
    /\ state_df.outcome = "KeyError"
    /\ UnknownStatusIn(ReferenceTasks)
    /\ \A x \in DOMAIN metadata : metadata[x].code = 200

\* The rows of the matrix `state` whose cell for the task `name` is -1.
MinusOneRows(state, name) ==
    SelectSeq(state.table, LAMBDA row : row.cells[name] = 0 - 1)

\* The path of the stderr object of the last attempt of the task with
\* second piece `name` in the metadata of the row.
LogPath(row, name) ==
    LET calls == metadata[row.workflow_id].json.calls
        t == CHOOSE t \in DOMAIN calls : t[2] = name
    IN  calls[t][Len(calls[t])].stderr

\* The requests reqs of the kind api, in the order issued.
Issued(reqs, api) == SelectSeq(reqs, LAMBDA r : r.api = api)

\* get_stderr(state, name) gave `out` after issuing reqs: every metadata
\* fetch is for a row with cell -1; a returned list holds one text per such
\* row, in row order, each fetched once with its metadata.
StderrAsClaimed(state, name, out, reqs) ==
    LET rows == MinusOneRows(state, name)
        fetches == Issued(reqs, "get_workflow_metadata")
        reads == Issued(reqs, "gsutil cat")
    IN  /\ Len(fetches) + Len(reads) = Len(reqs)
        /\ Len(fetches) <= Len(rows)
        /\ \A n \in 1..Len(fetches) : fetches[n].arg = rows[n].workflow_id
        /\ out.outcome = "returned" =>
            /\ Len(out.texts) = Len(rows)
            /\ Len(fetches) = Len(rows)
            /\ Len(reads) = Len(rows)
            /\ \A n \in 1..Len(rows) :
                /\ reads[n].arg = LogPath(rows[n], name)
                /\ out.texts[n] = objects[LogPath(rows[n], name)]

\* C13: a get_stderr call for a task column fetches metadata and log text
\* only for the rows whose cell for task_name is -1, and a returned list has
\* exactly one log text per such row, in row order; rows with cell 0, 1 or
\* 2 cause no fetch and contribute no entry.
C13_StderrOfFailedRows ==
    [][(stderrs' # stderrs /\ task_name' \in state_df.columns)
          => StderrAsClaimed(state_df, task_name', stderrs', requests')]_vars

\* get_stderr returned the log of one row and skipped a row whose task had
\* another state.
C13_Witness ==
    /\ stderrs.outcome = "returned"
    /\ state_df.outcome = "returned"
    /\ Len(stderrs.texts) = 1
    /\ Len(state_df.table) = 2
    /\ Len(requests) = 2
    /\ requests[2].api = "gsutil cat"
    /\ \E n \in 1..2 : state_df.table[n].cells[task_name] \in {1, 2}

\* The kinds of request that only read the remote state.
ReadApis ==
    {"list_submissions", "get_submission", "get_workflow_metadata",
     "gsutil cat"}

\* A call repeated in this step gives the result it gave before.  The
\* answers of the submission requests are inputs of each call, so a result
\* that an unanswered request cut short is compared with nothing.
SameResultAgain ==
    /\ (status_df.outcome \notin {"none", "AssertionError"}
            /\ status_df'.outcome # "AssertionError")
          => status_df' = status_df
    /\ (state_df.outcome \notin {"none", "AssertionError"}
            /\ state_df'.outcome # "AssertionError")
          => state_df' = state_df
    /\ (stderrs.outcome # "none" /\ task_name' = task_name)
          => stderrs' = stderrs
    /\ stats.outcome # "none" => stats' = stats

\* C14: every call of get_submission_status, display_status, get_stderr and
\* get_stats, ending in an error or not, issues read requests only and
\* leaves the remote state (submissions, workflow metadata, bucket objects)
\* unchanged, and a call repeated against it returns the same result.
C14_ReadOnly ==
    [][/\ \A n \in 1..Len(requests') : requests'[n].api \in ReadApis
       /\ submissions' = submissions
       /\ metadata' = metadata
       /\ objects' = objects
       /\ SameResultAgain]_vars

\* All four operations have been called, get_stats ended in an error and
\* get_stderr read a log.
C14_Witness ==
    /\ status_df.outcome = "returned"
    /\ state_df.outcome = "returned"
    /\ stderrs.outcome = "returned"
    /\ stderrs.texts # <<>>
    /\ stats.outcome = "AssertionError"
    /\ requests # <<>>
    /\ objects = Bucket

(***************************************************************************)
(* get_stats: attempts that never ended, the attempts count, and the       *)
(* workflow summary against the per-task tables.                           *)
(***************************************************************************)
\* An attempt other than the last has no end.
EndMissingBeforeLast(attempts) ==
    \E k \in 1..(Len(attempts) - 1) : "end" \notin DOMAIN attempts[k]

\* The qualified tasks of the entity of a per-task row <<bare name, row>>.
TasksOfRow(br) ==
    {t \in DOMAIN CallsOf(br[2].sample_id) : t[Len(t)] = br[1]}

\* The row of the workflow summary for an entity.
SummaryRow(sample_id) ==
    CHOOSE r \in Rows(stats.workflow_status_df) : r.sample_id = sample_id

\* C15: a task with an attempt without end that is not the last is rejected
\* or flagged: get_stats raises, or no returned number covers the task as if
\* every attempt had ended; the task's total_time_h, est_cost and
\* max_preempt_time_h and the est_cost of the entity's workflow row are NaN.
C15_UnendedAttemptRejectedOrFlagged ==
    stats.outcome = "returned" =>
        \A br \in TaskRows :
            (\A t \in TasksOfRow(br) :
                EndMissingBeforeLast(CallsOf(br[2].sample_id)[t]))
            => /\ br[2].cells.total_time_h = NaN
               /\ br[2].cells.est_cost = NaN
               /\ br[2].cells.max_preempt_time_h = NaN
               /\ SummaryRow(br[2].sample_id).est_cost = NaN

\* The longest elapsed time among the attempts before the last, NaN when
\* one of them has no end.
LongestBeforeLast(attempts) ==
    LET before == SubSeq(attempts, 1, Len(attempts) - 1)
    IN  IF AllEnded(before)
        THEN Num(CHOOSE m \in {Elapsed(before[k]) : k \in 1..Len(before)} :
                    \A k \in 1..Len(before) : Elapsed(before[k]) <= m)
        ELSE NaN

\* C16: in every row of every returned per-task table, attempts is the
\* number of attempts when the task's first attempt was preemptible and
\* unset (NaN) otherwise; max_preempt_time_h is set exactly when attempts is
\* set and greater than 1, and is then the maximum elapsed time among all
\* attempts except the last (NaN when one of those has no end).
C16_AttemptsAndMaxPreemptTime ==
    stats.outcome = "returned" =>
        \A br \in TaskRows : \E t \in TasksOfRow(br) :
            LET attempts == CallsOf(br[2].sample_id)[t]
                cells == br[2].cells
            IN  /\ cells.attempts =
                     IF attempts[1].preemptible THEN Num(Len(attempts))
                     ELSE NaN
                /\ cells.max_preempt_time_h =
                     IF attempts[1].preemptible /\ Len(attempts) > 1
                     THEN LongestBeforeLast(attempts)
                     ELSE NaN

\* One task started preemptible and was preempted twice before it
\* completed, the other ran once on demand.
C16_Witness ==
    /\ stats.outcome = "returned"
    /\ \E n \in 1..Len(stats.task_dfs["align"]) :
          LET row == stats.task_dfs["align"][n]
          IN  /\ CallsOf(row.sample_id)[<<"wf", "align">>]
                    = <<Preempted24min, Preempted3min, Done72min>>
              /\ row.cells.attempts = Num(3)
              /\ row.cells.max_preempt_time_h = Num(1440)
              /\ <<"wf", "sort">> \in DOMAIN CallsOf(row.sample_id)
              /\ CallsOf(row.sample_id)[<<"wf", "sort">>] = <<DoneOnDemand>>
              /\ stats.task_dfs["sort"][n].cells.attempts = NaN
              /\ stats.task_dfs["sort"][n].cells.max_preempt_time_h = NaN

\* The names of the returned per-task tables, in a fixed order.
ReturnedTables == SortedBy(<<"align", "sort">>, DOMAIN stats.task_dfs)

\* C17: in every row of the returned workflow summary, est_cost is the sum
\* of that entity's est_cost over the returned per-task tables (a NaN left
\* out, as the sum of the code leaves it out), also when two qualified task
\* names of the workflow have one bare name.
C17_SummaryIsSumOfTables ==
    stats.outcome = "returned" =>
        \A n \in 1..Len(stats.workflow_status_df) :
            stats.workflow_status_df[n].est_cost =
                PdSum([k \in 1..Len(ReturnedTables) |->
                    stats.task_dfs[ReturnedTables[k]][n].cells.est_cost])

(***************************************************************************)
(* The repository: update_method and publish_config.                       *)
(*                                                                         *)
(* `repository` holds the snapshot ids the repository has of one method or *)
(* configuration and the highest id it ever issued.  `publish` is one      *)
(* call, request by request: pc is the request to come, old_version is 0   *)
(* for None, log lists the answered requests, before the snapshots at the  *)
(* start of the call.                                                      *)
(***************************************************************************)
MaxSnapshots == 3

Operations == {"update_method", "publish_config"}

\* the firecloud.api function of each step of an operation
ApiOf(op, step) ==
    IF op = "update_method"
    THEN CASE step = "get" -> "list_repository_methods"
           [] step = "push" -> "update_repository_method"
           [] step = "acl" -> "update_repository_method_acl"
           [] step = "delete" -> "delete_repository_method"
    ELSE CASE step = "get" -> "list_repository_configs"
           [] step = "push" -> "copy_config_to_repo"
           [] step = "acl" -> "update_repository_config_acl"
           [] step = "delete" -> "delete_repository_config"

\* the status code the push of a new snapshot answers on success
Created(op) == IF op = "update_method" THEN 201 ELSE 200

Answered(step, code) ==
    [step |-> step, api |-> ApiOf(publish.op, step), code |-> code]

\* np.max([m['snapshotId'] for m in r])
MaxSnapshot(S) == CHOOSE m \in S : \A x \in S : x <= m

\* Faulty variant of PushAsserted: the answer of the push is not checked.
PushUnchecked(op, code) == TRUE

\* assert r.status_code==201 (update_method), ==200 (publish_config)
PushAsserted(op, code) == code = Created(op)

\* pc after the push, and after the ACL request
AfterPush(public, old_version) ==
    IF public THEN "acl"
    ELSE IF old_version # 0 THEN "delete" ELSE "done"

AfterAcl(old_version) == IF old_version # 0 THEN "delete" ELSE "done"

\* The repository before the call: some of the issued snapshots are left.
InitialRepositories ==
    UNION { { [snapshots |-> S, issued |-> n] : S \in SUBSET (1..n) } :
              n \in 0..(MaxSnapshots - 1) }

otherVars == <<submissions, configuration, status_df, metadata, stats_input,
               stats, machine_type, preemptible, vm_cost>>

InitPublish ==
    /\ submissions = <<>>
    /\ configuration \in Configurations
    /\ status_df = NotCalled
    /\ metadata = <<>>
    /\ stats_input = <<>>
    /\ stats = StatsNotCalled
    /\ machine_type = ""
    /\ preemptible = FALSE
    /\ vm_cost = VmNotCalled
    /\ DiagnosticsIdle
    /\ repository \in InitialRepositories
    /\ publish = PublishNotCalled

\* update_method(...) or publish_config(...) is called.
BeginPublish ==
    /\ publish.pc \in {"idle", "done", "raised"}
    /\ repository.issued < MaxSnapshots
    /\ \E op \in Operations : \E public \in BOOLEAN :
          publish' = [pc |-> "get", op |-> op, public |-> public,
                      old_version |-> 0, log |-> <<>>,
                      before |-> repository.snapshots]
    /\ UNCHANGED <<repository, otherVars, diagnosticsVars>>

\* r = get_method(...) / get_config(...), and old_version
GetSnapshots ==
    /\ publish.pc = "get"
    /\ \E code \in HttpCodes :
          publish' = [publish EXCEPT
              !.log = Append(@, Answered("get", code)),
              !.pc = IF code = 200 THEN "push" ELSE "raised",
              !.old_version =
                  IF code = 200 /\ repository.snapshots # {}
                  THEN MaxSnapshot(repository.snapshots) ELSE 0]
    /\ UNCHANGED <<repository, otherVars, diagnosticsVars>>

\* the push or copy of the new snapshot, and the assert on its answer
PushSnapshot ==
    /\ publish.pc = "push"
    /\ \E code \in {Created(publish.op), 500} :
        /\ repository' =
              IF code = Created(publish.op)
              THEN [snapshots |-> repository.snapshots
                                    \cup {repository.issued + 1},
                    issued |-> repository.issued + 1]
              ELSE repository
        /\ publish' = [publish EXCEPT
              !.log = Append(@, Answered("push", code)),
              !.pc = IF PushAsserted(publish.op, code)
                     THEN AfterPush(publish.public, publish.old_version)
                     ELSE "raised"]
    /\ UNCHANGED <<otherVars, diagnosticsVars>>

\* if public: the ACL request, whose answer is not checked
SetPublic ==
    /\ publish.pc = "acl"
    /\ \E code \in HttpCodes :
          publish' = [publish EXCEPT
              !.log = Append(@, Answered("acl", code)),
              !.pc = AfterAcl(publish.old_version)]
    /\ UNCHANGED <<repository, otherVars, diagnosticsVars>>

\* if old_version is not None: the delete request and the assert
DeleteOld ==
    /\ publish.pc = "delete"
    /\ \E code \in HttpCodes :
        /\ repository' =
              IF code = 200
              THEN [repository EXCEPT !.snapshots = @ \ {publish.old_version}]
              ELSE repository
        /\ publish' = [publish EXCEPT
              !.log = Append(@, Answered("delete", code)),
              !.pc = IF code = 200 THEN "done" ELSE "raised"]
    /\ UNCHANGED <<otherVars, diagnosticsVars>>

NextPublish ==
    \/ BeginPublish
    \/ GetSnapshots
    \/ PushSnapshot
    \/ SetPublic
    \/ DeleteOld

SpecPublish == InitPublish /\ [][NextPublish]_vars

\* The steps of the running call answered so far, by kind.
Steps(step) ==
    {i \in 1..Len(publish.log) : publish.log[i].step = step}

\* C18: in update_method and publish_config a delete request is issued only
\* after the push or copy of the new snapshot answered success; after a
\* failed push or copy no delete is issued; and a method or configuration
\* that had a snapshot before the call has one in every state of the call.
C18_DeleteOnlyAfterPush ==
    /\ \A i \in Steps("delete") :
          \E j \in Steps("push") :
              j < i /\ publish.log[j].code = Created(publish.op)
    /\ (\E j \in Steps("push") : publish.log[j].code # Created(publish.op))
          => Steps("delete") = {} /\ publish.pc \in {"raised"}
    /\ publish.before # {} => repository.snapshots # {}

\* A call that pushed a new snapshot of an existing method or configuration
\* and deleted the previously latest one.
C18_Witness ==
    /\ publish.pc = "done"
    /\ publish.before # {}
    /\ publish.old_version = MaxSnapshot(publish.before)
    /\ publish.old_version \notin repository.snapshots
    /\ repository.issued \in repository.snapshots
    /\ \E i \in Steps("delete") : publish.log[i].code = 200

====
